---------------------------- MODULE Spec2Model ----------------------------
(***************************************************************************)
(* Sulley request construction API (src/sulley/__init__.py): the global    *)
(* registry sulley.blocks.REQUESTS, the selector sulley.blocks.CURRENT and *)
(* the s_* calls that build, select, mutate and render a request.          *)
(*                                                                         *)
(* The classes of sulley.blocks / sulley.primitives / sulley.legos are not *)
(* part of the sources at hand; request(), push, pop, mutate,              *)
(* num_mutations and render are modelled from the written specification    *)
(* (spec.md, sections 3, 4.1, 4.3, 4.4, 4.5).  The s_* wrappers are         *)
(* translated from the source, and so are sulley.utils.crc16 (reflect,     *)
(* crcbitbybit, class CRC16) and sulley.utils.scada (dnp3).                *)
(***************************************************************************)
EXTENDS Integers, Sequences, FiniteSets, TLC

VARIABLES
    heap,       \* the objects ever created (requests, and the CRC16 objects
                \* of sulley.utils.crc16), heap[id] is the object
    REQUESTS,   \* sulley.blocks.REQUESTS: name -> request object (its id)
    CURRENT,    \* sulley.blocks.CURRENT: a request object (its id) or None
    last,       \* the call just made: operation, argument, exception, return
    sweep       \* per request, the mutate() calls observed since its fresh state;
                \* per CRC16 object, the bytes it was given since it was made

vars == <<heap, REQUESTS, CURRENT, last, sweep>>

----------------------------------------------------------------------------
(* Bounds of the model *)

\* Total number of items pushed onto all requests together.
MaxItems == 3

\* Number of mutation candidates of a fuzzable byte primitive.
LibSize == 2

\* max_reps a caller passes to s_repeat (min_reps = 0, step = 1).
MaxReps == 1

----------------------------------------------------------------------------
(* Python values *)

\* Python's None, as a name argument and as an unset reference.
None == "<None>"

\* CURRENT before any s_initialize.
NoRequest == 0

\* No exception was raised by the call.
NoErr == "ok"

\* Names a caller passes for requests; "" is a legal dictionary key.
ReqNames == {"", "A"}

\* Names a caller passes for blocks and modifier targets.
BlockNames == {"a", "b"}

\* Name of the group primitive a block may be tied to.
GroupNames == {"g"}

\* Raw values of a group primitive, in order.
GroupValues == <<71, 72>>

\* Lego types registered in sulley.legos.BIN, and one that is not.
LegoBIN == {"tag"}
LegoTypes == {"tag", "bogus"}

\* "LEGO_%08x" % n, for the n the model reaches.
LegoNameOf(n) ==
    <<"LEGO_00000000", "LEGO_00000001", "LEGO_00000002", "LEGO_00000003",
      "LEGO_00000004", "LEGO_00000005", "LEGO_00000006", "LEGO_00000007">>[n + 1]

----------------------------------------------------------------------------
(* Objects of sulley.blocks and sulley.primitives *)

\* An item of a request: a primitive, a block or a block modifier.
\*   kind   : "static", "byte", "group", "block", "lego", "checksum",
\*            "size", "repeat"
\*   name   : the item's name or None
\*   parent : the block (index into nodes) whose child it is, 0 for the
\*            request itself
\*   ref    : a modifier's block_name, a block's group, else None
\*   mi     : the item's own mutation sub-cursor
\*   value  : the current value of a primitive
\*   original_value : the value the item was declared with
Item(kind, name, ref, value) ==
    [kind |-> kind, name |-> name, parent |-> 0, ref |-> ref,
     mi |-> 0, value |-> value, original_value |-> value]

\* sulley.blocks.request(name): an empty request.
\*   nodes       : every item of the tree in declaration (depth-first) order
\*   names       : name -> item (index into nodes)
\*   block_stack : the open blocks, last opened last
\*   cursor      : number of leaves the current sweep has finished
request(name) ==
    [name |-> name, nodes |-> <<>>, names |-> [n \in {} |-> 0],
     block_stack |-> <<>>, cursor |-> 0]

IsBlock(item) == item.kind \in {"block", "lego"}

\* request.push: a named item whose name is taken is refused and nothing
\* is pushed.
PushFails(r, item) == item.name # None /\ item.name \in DOMAIN r.names

\* request.push: the item becomes the last child of the innermost open
\* block (of the request when none is open), its name enters the name
\* table, and a block is put on the open-block stack.
push(r, item) ==
    LET idx == Len(r.nodes) + 1
        par == IF r.block_stack = <<>> THEN 0
               ELSE r.block_stack[Len(r.block_stack)]
        placed == [item EXCEPT !.parent = par]
    IN  [r EXCEPT
            !.nodes = Append(r.nodes, placed),
            !.names = IF item.name = None THEN r.names
                      ELSE [n \in DOMAIN r.names \cup {item.name} |->
                              IF n = item.name THEN idx ELSE r.names[n]],
            !.block_stack = IF IsBlock(item) THEN Append(r.block_stack, idx)
                            ELSE r.block_stack]

\* request.pop: fails when no block is open.
PopFails(r) == r.block_stack = <<>>

\* request.pop: closes the most recently opened block.
pop(r) == [r EXCEPT !.block_stack = SubSeq(r.block_stack, 1, Len(r.block_stack) - 1)]

\* The items pushed so far, over all requests.
ItemsUsed == LET RECURSIVE Sum(_)
                 Sum(i) == IF i = 0 THEN 0 ELSE Len(heap[i].nodes) + Sum(i - 1)
             IN  Sum(Len(heap))

----------------------------------------------------------------------------
(* The record of a call *)

Call(op, arg, err, ret) == [op |-> op, arg |-> arg, err |-> err, ret |-> ret]

\* The request CURRENT refers to.
Cur == heap[CURRENT]

\* Any call on CURRENT while it is None raises AttributeError.
NoCurrent(op, arg) ==
    /\ CURRENT = NoRequest
    /\ last' = Call(op, arg, "AttributeError", None)
    /\ UNCHANGED <<heap, REQUESTS, CURRENT, sweep>>

\* A call that raises and changes nothing.
Raise(op, arg, err) ==
    /\ last' = Call(op, arg, err, None)
    /\ UNCHANGED <<heap, REQUESTS, CURRENT, sweep>>

\* A call that replaces the current request object's state by r.
Store(op, arg, r, ret) ==
    /\ heap' = [heap EXCEPT ![CURRENT] = r]
    /\ last' = Call(op, arg, NoErr, ret)
    /\ UNCHANGED <<REQUESTS, CURRENT, sweep>>

----------------------------------------------------------------------------
(* Registry *)

s_switch_fails(name) == name \notin DOMAIN REQUESTS

\* s_switch without its membership test: an unknown name unsets CURRENT.
s_switch_m(name) ==
    /\ CURRENT' = IF name \in DOMAIN REQUESTS THEN REQUESTS[name] ELSE NoRequest
    /\ last' = Call("s_switch", name,
                    IF name \in DOMAIN REQUESTS THEN NoErr ELSE "REQUESTS NOT FOUND",
                    None)
    /\ UNCHANGED <<heap, REQUESTS, sweep>>

s_switch(name) ==
    IF s_switch_fails(name)
    THEN Raise("s_switch", name, "REQUESTS NOT FOUND")
    ELSE /\ CURRENT' = REQUESTS[name]
         /\ last' = Call("s_switch", name, NoErr, None)
         /\ UNCHANGED <<heap, REQUESTS, sweep>>

\* s_initialize without its membership test: an existing name is rebound.
s_initialize_m(name) ==
    /\ heap' = Append(heap, request(name))
    /\ REQUESTS' = [n \in DOMAIN REQUESTS \cup {name} |->
                      IF n = name THEN Len(heap) + 1 ELSE REQUESTS[n]]
    /\ CURRENT' = REQUESTS'[name]
    /\ last' = Call("s_initialize", name, NoErr, None)
    /\ Len(heap) < Cardinality(ReqNames) + 1
    /\ UNCHANGED sweep

s_initialize(name) ==
    IF name \in DOMAIN REQUESTS
    THEN Raise("s_initialize", name, "REQUESTS ALREADY EXISTS")
    ELSE /\ heap' = Append(heap, request(name))
         /\ REQUESTS' = [n \in DOMAIN REQUESTS \cup {name} |->
                           IF n = name THEN Len(heap) + 1 ELSE REQUESTS[n]]
         /\ CURRENT' = REQUESTS'[name]
         /\ last' = Call("s_initialize", name, NoErr, None)
         /\ UNCHANGED sweep

\* `if not name`: None and the empty string are both falsy.
Falsy(name) == name = None \/ name = ""

\* s_get that selects with REQUESTS.get(name) before it tests the name: an
\* unknown name unsets CURRENT and then raises.
s_get_m(name) ==
    IF Falsy(name)
    THEN /\ last' = Call("s_get", name, NoErr, CURRENT)
         /\ UNCHANGED <<heap, REQUESTS, CURRENT, sweep>>
    ELSE /\ CURRENT' = IF name \in DOMAIN REQUESTS THEN REQUESTS[name] ELSE NoRequest
         /\ last' = IF name \in DOMAIN REQUESTS
                    THEN Call("s_get", name, NoErr, REQUESTS[name])
                    ELSE Call("s_get", name, "REQUESTS NOT FOUND", None)
         /\ UNCHANGED <<heap, REQUESTS, sweep>>

s_get(name) ==
    IF Falsy(name)
    THEN /\ last' = Call("s_get", name, NoErr, CURRENT)
         /\ UNCHANGED <<heap, REQUESTS, CURRENT, sweep>>
    ELSE IF s_switch_fails(name)
    THEN Raise("s_get", name, "REQUESTS NOT FOUND")
    ELSE /\ CURRENT' = REQUESTS[name]
         /\ last' = Call("s_get", name, NoErr, REQUESTS[name])
         /\ UNCHANGED <<heap, REQUESTS, sweep>>

----------------------------------------------------------------------------
(* Construction *)

\* Room for one more item within the model's bound.
Room == ItemsUsed < MaxItems

\* push(item) onto the current request, or the exception push raises.
PushCurrent(op, arg, item) ==
    IF PushFails(Cur, item)
    THEN Raise(op, arg, "DuplicateName")
    ELSE Room /\ Store(op, arg, push(Cur, item), None)

\* A str compared with a block instance: Python falls back to identity,
\* the two are never equal.
StrEqualsBlock(s, blk) == FALSE

\* `block_name in CURRENT.block_stack`: the stack holds the open blocks
\* themselves.
InBlockStack(block_name, r) ==
    \E i \in DOMAIN r.block_stack : StrEqualsBlock(block_name, r.nodes[r.block_stack[i]])

\* A constructor that resolves nothing.
ModifierFails_m(r, block_name) == FALSE

\* The constructor of a checksum, size or repeat resolves its target in the
\* request it is given and refuses a name the request does not hold.
ModifierFails(r, block_name) == block_name \notin DOMAIN r.names

s_block_start(name, group) ==
    \/ NoCurrent("s_block_start", None)
    \/ /\ CURRENT # NoRequest
       /\ PushCurrent("s_block_start", None, Item("block", name, group, 0))

\* s_block_end that closes the block its name argument names, when that
\* block is open.
s_block_end_m(name) ==
    \/ NoCurrent("s_block_end", name)
    \/ /\ CURRENT # NoRequest
       /\ IF PopFails(Cur)
          THEN Raise("s_block_end", name, "EmptyStack")
          ELSE LET open == Cur.block_stack
                   named == {k \in DOMAIN open : Cur.nodes[open[k]].name = name}
                   k == IF named = {} THEN Len(open) ELSE CHOOSE j \in named : TRUE
               IN  Store("s_block_end", name,
                         [Cur EXCEPT !.block_stack =
                              SubSeq(open, 1, k - 1) \o SubSeq(open, k + 1, Len(open))],
                         None)

\* s_block_end: CURRENT.pop(); the name argument is not used.
s_block_end(name) ==
    \/ NoCurrent("s_block_end", name)
    \/ /\ CURRENT # NoRequest
       /\ IF PopFails(Cur)
          THEN Raise("s_block_end", name, "EmptyStack")
          ELSE Store("s_block_end", name, pop(Cur), None)

s_checksum(block_name) ==
    \/ NoCurrent("s_checksum", block_name)
    \/ /\ CURRENT # NoRequest
       /\ IF InBlockStack(block_name, Cur)
          THEN Raise("s_checksum", block_name, "BLOCK CURRENTLY IN THE STACK")
          ELSE IF ModifierFails(Cur, block_name)
          THEN Raise("s_checksum", block_name, "NotFound")
          ELSE PushCurrent("s_checksum", block_name,
                           Item("checksum", None, block_name, 0))

s_size(block_name) ==
    \/ NoCurrent("s_size", block_name)
    \/ /\ CURRENT # NoRequest
       /\ IF InBlockStack(block_name, Cur)
          THEN Raise("s_size", block_name, "BLOCK CURRENTLY IN THE STACK")
          ELSE IF ModifierFails(Cur, block_name)
          THEN Raise("s_size", block_name, "NotFound")
          ELSE PushCurrent("s_size", block_name,
                           Item("size", None, block_name, 0))

s_repeat(block_name) ==
    \/ NoCurrent("s_repeat", block_name)
    \/ /\ CURRENT # NoRequest
       /\ IF ModifierFails(Cur, block_name)
          THEN Raise("s_repeat", block_name, "NotFound")
          ELSE PushCurrent("s_repeat", block_name,
                           Item("repeat", None, block_name, 0))

s_static(value) ==
    \/ NoCurrent("s_static", None)
    \/ /\ CURRENT # NoRequest
       /\ PushCurrent("s_static", None, Item("static", None, None, value))

s_byte(value) ==
    \/ NoCurrent("s_byte", None)
    \/ /\ CURRENT # NoRequest
       /\ PushCurrent("s_byte", None, Item("byte", None, None, value))

s_group(name) ==
    \/ NoCurrent("s_group", None)
    \/ /\ CURRENT # NoRequest
       /\ PushCurrent("s_group", None, Item("group", name, None, GroupValues[1]))

\* s_lego that tests the lego type only after the push.
s_lego_m(lego_type) ==
    \/ NoCurrent("s_lego", lego_type)
    \/ /\ CURRENT # NoRequest
       /\ LET name == LegoNameOf(Cardinality(DOMAIN Cur.names))
              lego == Item("lego", name, None, 0)
          IN  /\ Room
              /\ heap' = [heap EXCEPT ![CURRENT] = push(Cur, lego)]
              /\ last' = Call("s_lego", lego_type,
                              IF lego_type \notin LegoBIN
                              THEN "INVALID LEGO TYPE SPECIFIED" ELSE NoErr, None)
              /\ UNCHANGED <<REQUESTS, CURRENT, sweep>>

s_lego(lego_type) ==
    \/ NoCurrent("s_lego", lego_type)
    \/ /\ CURRENT # NoRequest
       /\ LET name == LegoNameOf(Cardinality(DOMAIN Cur.names))
              lego == Item("lego", name, None, 0)
          IN  IF lego_type \notin LegoBIN
              THEN Raise("s_lego", lego_type, "INVALID LEGO TYPE SPECIFIED")
              ELSE IF PushFails(Cur, lego)
              THEN Raise("s_lego", lego_type, "DuplicateName")
              ELSE Room /\ Store("s_lego", lego_type, pop(push(Cur, lego)), None)

\* A str is the sequence of its characters.  The hexadecimal digits, in
\* the order of their values, lower and upper case.
HexLower == <<"0", "1", "2", "3", "4", "5", "6", "7", "8", "9",
              "a", "b", "c", "d", "e", "f">>
HexUpper == <<"0", "1", "2", "3", "4", "5", "6", "7", "8", "9",
              "A", "B", "C", "D", "E", "F">>

IsHexDigit(c) == \E k \in 1..16 : HexLower[k] = c \/ HexUpper[k] = c

\* The exception int() raises.
ValueError == "ValueError"

\* Characters int() skips at both ends of its argument, of those s_binary
\* does not take out: the form feed.
Whitespace == {"\f"}

\* int(pair, 16) for a pair of one or two characters: white space at the
\* ends is skipped and a sign is accepted; what is left must be one or two
\* hexadecimal digits, everything else is a ValueError.
int16(pair) ==
    LET digit(c) == (CHOOSE k \in 1..16 : HexLower[k] = c \/ HexUpper[k] = c) - 1
        left == IF pair # <<>> /\ Head(pair) \in Whitespace THEN Tail(pair) ELSE pair
        text == IF left # <<>> /\ left[Len(left)] \in Whitespace
                THEN SubSeq(left, 1, Len(left) - 1) ELSE left
        signed == text # <<>> /\ Head(text) \in {"+", "-"}
        digits == IF signed THEN Tail(text) ELSE text
        number == IF Len(digits) = 1 THEN digit(digits[1])
                  ELSE (16 * digit(digits[1])) + digit(digits[2])
    IN  IF digits = <<>> \/ \E k \in DOMAIN digits : ~IsHexDigit(digits[k])
        THEN [err |-> ValueError, ret |-> None]
        ELSE [err |-> NoErr,
              ret |-> IF signed /\ Head(text) = "-" THEN 0 - number ELSE number]

\* chr(i): the character of ordinal i, ValueError outside range(256).
chr(i) ==
    IF i \in 0..255 THEN [err |-> NoErr, ret |-> i]
    ELSE [err |-> ValueError, ret |-> None]

\* str.replace(old, ""): the occurrences of old are found from left to
\* right, without overlap, and left out.
replace(string, old) ==
    LET loop[st \in [i : Nat, out : Seq(STRING)]] ==
            IF st.i > Len(string) THEN st.out
            ELSE IF /\ st.i + Len(old) - 1 <= Len(string)
                    /\ SubSeq(string, st.i, st.i + Len(old) - 1) = old
                 THEN loop[[i |-> st.i + Len(old), out |-> st.out]]
                 ELSE loop[[i |-> st.i + 1, out |-> Append(st.out, string[st.i])]]
    IN  loop[[i |-> 1, out |-> <<>>]]

\* The replace calls of s_binary with "x" in the place of "0x".
strip_m(value) ==
    replace(replace(replace(replace(replace(replace(replace(value,
        <<" ">>), <<"\t">>), <<"\r">>), <<"\n">>), <<",">>), <<"x">>), <<"\\", "x">>)

\* The replace calls of s_binary, in their order: " ", "\t", "\r", "\n",
\* ",", "0x" and "\\x" are taken out of value.
strip(value) ==
    replace(replace(replace(replace(replace(replace(replace(value,
        <<" ">>), <<"\t">>), <<"\r">>), <<"\n">>), <<",">>), <<"0", "x">>), <<"\\", "x">>)

\* The while loop of s_binary: parsed is consumed two characters at a time,
\* each pair adds chr(int(pair, 16)) to value; ValueError ends the loop.
pairs_loop(parsed) ==
    LET loop[st \in [i : Nat, value : Seq(Nat)]] ==
            IF st.i > Len(parsed) THEN [err |-> NoErr, ret |-> st.value]
            ELSE LET pair == SubSeq(parsed, st.i,
                                    IF st.i + 1 <= Len(parsed) THEN st.i + 1 ELSE Len(parsed))
                     number == int16(pair)
                     byte == IF number.err # NoErr THEN number ELSE chr(number.ret)
                 IN  IF byte.err # NoErr THEN byte
                     ELSE loop[[i |-> st.i + 2, value |-> Append(st.value, byte.ret)]]
    IN  loop[[i |-> 1, value |-> <<>>]]

\* s_binary(value): the parsed bytes become an unnamed static, pushed onto
\* the current request.
s_binary(value) ==
    LET bytes == pairs_loop(strip(value))
    IN  IF bytes.err # NoErr THEN Raise("s_binary", value, bytes.err)
        ELSE \/ NoCurrent("s_binary", value)
             \/ /\ CURRENT # NoRequest
                /\ PushCurrent("s_binary", value, Item("static", None, None, bytes.ret))

\* Values a caller passes to s_update.
UpdateValues == {9}

\* Names a caller passes to s_update: a group, the blocks, and a name no
\* request declares.
UpdateNames == GroupNames \cup BlockNames \cup {"zz"}

\* s_update that also rewinds the item's mutation sub-cursor.
s_update_m(name, value) ==
    \/ NoCurrent("s_update", <<name, value>>)
    \/ /\ CURRENT # NoRequest
       /\ IF name \notin DOMAIN Cur.names
          THEN Raise("s_update", <<name, value>>, "NO OBJECT WITH NAME")
          ELSE Store("s_update", <<name, value>>,
                     [Cur EXCEPT !.nodes[Cur.names[name]].value = value,
                                 !.nodes[Cur.names[name]].mi = 0], None)

\* s_update: CURRENT.names[name].value = value, after the membership test.
s_update(name, value) ==
    \/ NoCurrent("s_update", <<name, value>>)
    \/ /\ CURRENT # NoRequest
       /\ IF name \notin DOMAIN Cur.names
          THEN Raise("s_update", <<name, value>>, "NO OBJECT WITH NAME")
          ELSE Store("s_update", <<name, value>>,
                     [Cur EXCEPT !.nodes[Cur.names[name]].value = value], None)

----------------------------------------------------------------------------
(* Mutation engine *)

\* The candidate count of a leaf: a fuzzable byte has its library, a group
\* its values, a repeat the counts min_reps .. max_reps; statics, blocks,
\* checksums, sizers and legos have none of their own.
Count(r, i) ==
    CASE r.nodes[i].kind = "byte"   -> LibSize
      [] r.nodes[i].kind = "group"  -> Len(GroupValues)
      [] r.nodes[i].kind = "repeat" -> MaxReps + 1
      [] OTHER                      -> 0

\* Candidate k (1-based) of leaf i.
Candidate(r, i, k) ==
    CASE r.nodes[i].kind = "byte"   -> 256 - k
      [] r.nodes[i].kind = "group"  -> GroupValues[k]
      [] r.nodes[i].kind = "repeat" -> k - 1
      [] OTHER                      -> r.nodes[i].original_value

\* The tree flattened depth-first into its mutatable leaves.
Leaves(r) ==
    LET Mutatable(i) == Count(r, i) > 0
    IN  SelectSeq([i \in 1..Len(r.nodes) |-> i], Mutatable)

RECURSIVE Within(_, _, _)
\* Item i lies in the subtree of block b.
Within(r, b, i) ==
    IF i = 0 THEN FALSE
    ELSE r.nodes[i].parent = b \/ Within(r, b, r.nodes[i].parent)

\* The mutatable leaves inside block b.
LeavesIn(r, b) == {i \in 1..Len(r.nodes) : Count(r, i) > 0 /\ Within(r, b, i)}

Max(S) == CHOOSE x \in S : \A y \in S : y <= x
Min(S) == CHOOSE x \in S : \A y \in S : x <= y

\* Block b is tied to a group primitive.
Bound(r, b) == r.nodes[b].kind = "block" /\ r.nodes[b].ref # None

\* How often the sweep of block b is repeated: once per group value.
Reps(r, b) == IF Bound(r, b) THEN Len(GroupValues) ELSE 1

RECURSIVE NumOf(_, _), NumFrom(_, _, _)
\* num_mutations of item i: a leaf's candidate count; for a block the sum
\* over its children, repeated once per value of the group it is tied to.
NumOf(r, i) ==
    IF r.nodes[i].kind = "block"
    THEN Reps(r, i) * NumFrom(r, i, i + 1)
    ELSE Count(r, i)

\* Sum of num_mutations over the children of p declared at index >= i.
NumFrom(r, p, i) ==
    IF i > Len(r.nodes) THEN 0
    ELSE (IF r.nodes[i].parent = p THEN NumOf(r, i) ELSE 0) + NumFrom(r, p, i + 1)

\* num_mutations that counts the request's own children only.
num_mutations_m(r) ==
    LET RECURSIVE Top(_)
        Top(i) == IF i > Len(r.nodes) THEN 0
                  ELSE (IF r.nodes[i].parent = 0 THEN Count(r, i) ELSE 0) + Top(i + 1)
    IN  Top(1)

\* request.num_mutations().
num_mutations(r) == NumFrom(r, 0, 1)

\* The request with the whole cursor state at the start: every sub-cursor
\* zero, every value the original one.
Fresh(r) ==
    [r EXCEPT !.cursor = 0,
              !.nodes = [i \in DOMAIN r.nodes |->
                            [r.nodes[i] EXCEPT !.mi = 0,
                                               !.value = r.nodes[i].original_value]]]

RECURSIVE SetGroups(_, _)
\* While a leaf inside group-tied blocks is swept, each such group holds
\* the value of the repetition its block is in (outer blocks first).
SetGroups(r, b) ==
    IF b = 0 THEN r
    ELSE LET up == SetGroups(r, r.nodes[b].parent)
         IN  IF Bound(r, b)
             THEN [up EXCEPT !.nodes[r.names[r.nodes[b].ref]].value =
                                 GroupValues[r.nodes[b].mi + 1]]
             ELSE up

\* Block b has finished its last repetition: its group gets its original
\* value back and the block's repetition index restarts.
FinishBlock(r, b) ==
    IF Bound(r, b)
    THEN [r EXCEPT !.nodes[b].mi = 0,
                   !.nodes[r.names[r.nodes[b].ref]].value =
                       r.nodes[r.names[r.nodes[b].ref]].original_value]
    ELSE r

RECURSIVE Leave(_, _, _)
\* Leaf i is exhausted and reset; b is the block around it.  If i is the
\* last leaf of a group-tied block with repetitions left, the block starts
\* its next repetition at its first leaf; otherwise the cursor moves on.
Leave(r, i, b) ==
    IF b = 0 \/ i # Max(LeavesIn(r, b) \cup {i})
    THEN [r EXCEPT !.cursor = @ + 1]
    ELSE IF Bound(r, b) /\ r.nodes[b].mi + 1 < Reps(r, b)
    THEN [r EXCEPT !.nodes[b].mi = @ + 1,
                   !.cursor = Cardinality({j \in 1..Len(r.nodes) :
                                 Count(r, j) > 0 /\ j < Min(LeavesIn(r, b))})]
    ELSE Leave(FinishBlock(r, b), i, r.nodes[b].parent)

RECURSIVE mutate_m(_)
\* mutate that returns False at the end of the sweep without resetting.
mutate_m(r) ==
    IF r.cursor >= Len(Leaves(r))
    THEN [r |-> r, ret |-> FALSE, leaf |-> 0]
    ELSE LET i == Leaves(r)[r.cursor + 1]
         IN  IF r.nodes[i].mi < Count(r, i)
             THEN [r |-> SetGroups(
                            [r EXCEPT !.nodes[i].mi = @ + 1,
                                      !.nodes[i].value =
                                          Candidate(r, i, r.nodes[i].mi + 1)],
                            r.nodes[i].parent),
                   ret |-> TRUE, leaf |-> i]
             ELSE mutate_m(Leave(
                     [r EXCEPT !.nodes[i].mi = 0,
                               !.nodes[i].value = r.nodes[i].original_value],
                     i, r.nodes[i].parent))

RECURSIVE mutate(_)
\* request.mutate(): advance the leaf at the cursor; an exhausted leaf is
\* reset to its default and the cursor moves on; when no leaf is left the
\* whole cursor state is reset and the call returns False.
mutate(r) ==
    IF r.cursor >= Len(Leaves(r))
    THEN [r |-> Fresh(r), ret |-> FALSE, leaf |-> 0]
    ELSE LET i == Leaves(r)[r.cursor + 1]
         IN  IF r.nodes[i].mi < Count(r, i)
             THEN [r |-> SetGroups(
                            [r EXCEPT !.nodes[i].mi = @ + 1,
                                      !.nodes[i].value =
                                          Candidate(r, i, r.nodes[i].mi + 1)],
                            r.nodes[i].parent),
                   ret |-> TRUE, leaf |-> i]
             ELSE mutate(Leave(
                     [r EXCEPT !.nodes[i].mi = 0,
                               !.nodes[i].value = r.nodes[i].original_value],
                     i, r.nodes[i].parent))

----------------------------------------------------------------------------
(* Render engine *)

RECURSIVE SumBytes(_)
SumBytes(s) == IF s = <<>> THEN 0 ELSE Head(s) + SumBytes(Tail(s))

\* A checksum over bytes, standing for the digest the algorithm computes:
\* a function of the rendered target alone.
Digest(s) == (SumBytes(s) + Len(s)) % 256

RECURSIVE Times(_, _)
Times(s, n) == IF n = 0 THEN <<>> ELSE s \o Times(s, n - 1)

RECURSIVE RenderItem(_, _), RenderChildren(_, _, _)
\* The bytes of item i for the current values: a primitive its value, a
\* block its children in order, a modifier what it derives from the
\* current render of its target.
RenderItem(r, i) ==
    CASE r.nodes[i].kind \in {"static", "byte", "group"} -> <<r.nodes[i].value>>
      [] r.nodes[i].kind = "block" -> RenderChildren(r, i, i + 1)
      [] r.nodes[i].kind = "lego" -> <<r.nodes[i].value>>
      [] r.nodes[i].kind = "checksum" ->
            <<Digest(RenderItem(r, r.names[r.nodes[i].ref]))>>
      [] r.nodes[i].kind = "size" ->
            <<Len(RenderItem(r, r.names[r.nodes[i].ref]))>>
      [] r.nodes[i].kind = "repeat" ->
            Times(RenderItem(r, r.names[r.nodes[i].ref]), r.nodes[i].value)

RenderChildren(r, p, i) ==
    IF i > Len(r.nodes) THEN <<>>
    ELSE (IF r.nodes[i].parent = p THEN RenderItem(r, i) ELSE <<>>)
         \o RenderChildren(r, p, i + 1)

\* render that leaves every field at its original value behind.
render_m(r) == [r |-> Fresh(r), ret |-> RenderChildren(r, 0, 1)]

\* request.render(): one pass from the root; it reads and changes nothing.
render(r) == [r |-> r, ret |-> RenderChildren(r, 0, 1)]

----------------------------------------------------------------------------
(* sulley.utils.crc16 *)

\* A Python str is modelled as the sequence of its characters' ord values.

RECURSIVE BitAnd(_, _)
\* a & b on non-negative integers.
BitAnd(a, b) ==
    IF a = 0 \/ b = 0 THEN 0
    ELSE (IF a % 2 = 1 /\ b % 2 = 1 THEN 1 ELSE 0) + 2 * BitAnd(a \div 2, b \div 2)

RECURSIVE BitOr(_, _)
\* a | b on non-negative integers.
BitOr(a, b) ==
    IF a = 0 THEN b ELSE IF b = 0 THEN a
    ELSE (IF a % 2 = 1 \/ b % 2 = 1 THEN 1 ELSE 0) + 2 * BitOr(a \div 2, b \div 2)

RECURSIVE BitXor(_, _)
\* a ^ b on non-negative integers.
BitXor(a, b) ==
    IF a = 0 THEN b ELSE IF b = 0 THEN a
    ELSE ((a + b) % 2) + 2 * BitXor(a \div 2, b \div 2)

RECURSIVE Shl(_, _)
\* a << n.
Shl(a, n) == IF n = 0 THEN a ELSE Shl(2 * a, n - 1)

\* The generator polynomial XORed into the register on carry.
Poly == 4129

\* The mask of bit 15, the register's carry bit.
TopBit == 32768

\* The mask of the 16-bit register.
Mask16 == 65535

\* The loops below are written as functions of the loop state, so that each
\* iteration works on the values the one before it has computed.
LoopState == [crc : Nat, j : Nat, b : Nat]

\* A reflect that returns the low bitnum bits as they are.
reflect_m(crc, bitnum) == crc % Shl(1, bitnum)

\* A reflect whose mask starts one bit too high: i = 1 << (bitnum - b).
reflect_high(crc, bitnum) ==
    LET loop[st \in LoopState] ==
            IF st.b = bitnum THEN st.crc
            ELSE LET i == Shl(1, bitnum - st.b)
                 IN  loop[[crc |-> IF BitAnd(crc, i) # 0 THEN BitOr(st.crc, st.j)
                                   ELSE st.crc,
                           j |-> Shl(st.j, 1), b |-> st.b + 1]]
    IN  loop[[crc |-> 0, j |-> 1, b |-> 0]]

\* reflect(crc, bitnum): at step b the bit (bitnum - 1 - b) of crc decides
\* whether j, the bit b, is set in crcout (st.crc below).
reflect(crc, bitnum) ==
    LET loop[st \in LoopState] ==
            IF st.b = bitnum THEN st.crc
            ELSE LET i == Shl(1, bitnum - 1 - st.b)
                 IN  loop[[crc |-> IF BitAnd(crc, i) # 0 THEN BitOr(st.crc, st.j)
                                   ELSE st.crc,
                           j |-> Shl(st.j, 1), b |-> st.b + 1]]
    IN  loop[[crc |-> 0, j |-> 1, b |-> 0]]

\* One pass through the body of crcbitbybit's inner loop, up to `j >>= 1`.
round(st, c) ==
    LET bit == BitAnd(st.crc, TopBit)
        c1 == BitAnd(Shl(st.crc, 1), Mask16)
        c2 == IF BitAnd(c, st.j) # 0 THEN BitOr(c1, 1) ELSE c1
        c3 == IF bit # 0 THEN BitXor(c2, Poly) ELSE c2
    IN  [crc |-> c3, j |-> st.j \div 2, b |-> st.b + 1]

\* The inner loop of crcbitbybit over one reflected byte c: range(16), left
\* by the break as soon as the bit mask j has been shifted down to 0.
byte_loop(crc, c) ==
    LET loop[st \in LoopState] ==
            IF st.b = 16 THEN st.crc
            ELSE LET st1 == round(st, c)
                 IN  IF st1.j = 0 THEN st1.crc ELSE loop[st1]
    IN  loop[[crc |-> crc, j |-> 128, b |-> 0]]

\* The inner loop without its break: all 16 rounds for every byte.
byte_loop_m(crc, c) ==
    LET loop[st \in LoopState] ==
            IF st.b = 16 THEN st.crc ELSE loop[round(st, c)]
    IN  loop[[crc |-> crc, j |-> 128, b |-> 0]]

\* The first loop of crcbitbybit: every character of p in turn.
bytes_loop(p) ==
    LET loop[st \in [crc : Nat, i : Nat]] ==
            IF st.i > Len(p) THEN st.crc
            ELSE loop[[crc |-> byte_loop(st.crc, reflect(p[st.i], 8)), i |-> st.i + 1]]
    IN  loop[[crc |-> 0, i |-> 1]]

bytes_loop_m(p) ==
    LET loop[st \in [crc : Nat, i : Nat]] ==
            IF st.i > Len(p) THEN st.crc
            ELSE loop[[crc |-> byte_loop_m(st.crc, reflect(p[st.i], 8)), i |-> st.i + 1]]
    IN  loop[[crc |-> 0, i |-> 1]]

\* The second loop with the carry read after the shift instead of before.
zero_loop_m(crc) ==
    LET loop[st \in [hi : Nat, lo : Nat, i : Nat]] ==
            IF st.i = 16 THEN [hi |-> st.hi, lo |-> st.lo]
            ELSE LET hi1 == (2 * st.hi) + (Shl(st.lo, 1) \div (Mask16 + 1))
                     lo1 == Shl(st.lo, 1) % (Mask16 + 1)
                     bit == BitAnd(lo1, TopBit)
                     lo2 == IF bit # 0 THEN BitXor(lo1, Poly) ELSE lo1
                 IN  loop[[hi |-> hi1, lo |-> lo2, i |-> st.i + 1]]
    IN  loop[[hi |-> 0, lo |-> crc, i |-> 0]]

\* The second loop of crcbitbybit, 16 rounds.  The register is not masked
\* here and Python integers do not overflow: crc is kept as the pair of
\* its bits 16 and above (hi) and its bits 0..15 (lo).
zero_loop(crc) ==
    LET loop[st \in [hi : Nat, lo : Nat, i : Nat]] ==
            IF st.i = 16 THEN [hi |-> st.hi, lo |-> st.lo]
            ELSE LET bit == BitAnd(st.lo, TopBit)
                     hi1 == (2 * st.hi) + (Shl(st.lo, 1) \div (Mask16 + 1))
                     lo1 == Shl(st.lo, 1) % (Mask16 + 1)
                     lo2 == IF bit # 0 THEN BitXor(lo1, Poly) ELSE lo1
                 IN  loop[[hi |-> hi1, lo |-> lo2, i |-> st.i + 1]]
    IN  loop[[hi |-> 0, lo |-> crc, i |-> 0]]

\* crcbitbybit with the inner loop run for all its 16 rounds.
crcbitbybit_m(p) == reflect(zero_loop(bytes_loop_m(p)).lo, 16)

\* crcbitbybit(p); reflect(crc, 16) reads the bits 0..15 of crc only.
crcbitbybit(p) == reflect(zero_loop(bytes_loop(p)).lo, 16)

\* An instance of class CRC16 built by CRC16(string=string): val is 0 and,
\* for a non-empty string, update(string) stores crcbitbybit(string).
CRC16(string) ==
    [class |-> "CRC16", val |-> IF string # <<>> THEN crcbitbybit(string) ELSE 0]

\* self.checksum(): the character of val >> 8, then that of val & 0xff.
checksum(self) ==
    LET high == chr(self.val \div 256)
        low == chr(self.val % 256)
    IN  IF high.err # NoErr THEN high
        ELSE [err |-> NoErr, ret |-> <<high.ret, low.ret>>]

\* c = CRC16(string): a new object; the observer notes what it was given.
CRC16_init(string) ==
    LET c == Len(heap) + 1
    IN  /\ heap' = Append(heap, CRC16(string))
        /\ sweep' = [d \in DOMAIN sweep \cup {c} |-> IF d = c THEN string ELSE sweep[d]]
        /\ last' = Call("CRC16", string, NoErr, c)
        /\ UNCHANGED <<REQUESTS, CURRENT>>

\* c.update(string): val becomes the CRC of string.
CRC16_update(c, string) ==
    /\ heap' = [heap EXCEPT ![c].val = crcbitbybit(string)]
    /\ sweep' = [sweep EXCEPT ![c] = @ \o string]
    /\ last' = Call("update", [self |-> c, string |-> string], NoErr, None)
    /\ UNCHANGED <<REQUESTS, CURRENT>>

\* c.intchecksum(): val.
CRC16_intchecksum(c) ==
    /\ last' = Call("intchecksum", c, NoErr, heap[c].val)
    /\ UNCHANGED <<heap, REQUESTS, CURRENT, sweep>>

----------------------------------------------------------------------------
(* sulley.utils.scada *)

\* The exception struct.pack raises.
StructError == "struct.error"

\* struct.pack refuses an argument that is not an integer and has neither
\* __index__ nor __int__: an instance of CRC16 is such an argument.
IsInteger(v) == v.class \in {"int", "long"}

\* struct.pack("<H", v): the two bytes of v, low byte first, or struct.error.
pack_H(v) ==
    IF IsInteger(v)
    THEN [err |-> NoErr, ret |-> <<v.val % 256, (v.val \div 256) % 256>>]
    ELSE [err |-> StructError, ret |-> None]

\* Bytes of payload in one packet.
SegmentSize == 250

\* Bytes of a packet's slice in one chunk.
ChunkSize == 16

\* s[a:b] for 0 <= a <= b.
PySlice(s, a, b) ==
    SubSeq(s, (IF a < Len(s) THEN a ELSE Len(s)) + 1, IF b < Len(s) THEN b ELSE Len(s))

\* int(math.ceil(float(n) / d)) for the lengths at hand.
CeilDiv(n, d) == (n + d - 1) \div d

\* The loop over the chunks of packet i: p grows by the checksum of a
\* chunk and the chunk; an exception ends the loop.
dnp3_chunks(p, slice, i, num_chunks) ==
    LET loop[st \in [x : Nat, p : Seq(Nat)]] ==
            IF st.x = num_chunks THEN [err |-> NoErr, ret |-> st.p]
            ELSE LET chunk == PySlice(slice, i * ChunkSize, (i + 1) * ChunkSize)
                     chksum == pack_H(CRC16(chunk))
                 IN  IF chksum.err # NoErr THEN chksum
                     ELSE loop[[x |-> st.x + 1, p |-> st.p \o chksum.ret \o chunk]]
    IN  loop[[x |-> 0, p |-> p]]

\* The fragmentation flags / sequence number of packet i: i, with 0x40 or'ed
\* in for the first packet and 0x80 for the last.
frag_number(i, num_packets) ==
    LET first == IF i = 0 THEN BitOr(i, 64) ELSE i
    IN  IF i = num_packets - 1 THEN BitOr(first, 128) ELSE first

\* The body of dnp3's loop for packet i: the packet, or the exception.
dnp3_packet(data, control_code, src, dst, i, num_packets) ==
    LET slice == PySlice(data, i * SegmentSize, (i + 1) * SegmentSize)
        p == <<5, 100>> \o <<Len(slice)>> \o control_code \o dst \o src
        chksum == pack_H(CRC16(p))
        num_chunks == CeilDiv(Len(slice), ChunkSize)
        flags == chr(frag_number(i, num_packets))
    IN  IF chksum.err # NoErr THEN chksum
        ELSE IF flags.err # NoErr THEN flags
        ELSE dnp3_chunks(p \o chksum.ret \o <<flags.ret>>, slice, i, num_chunks)

\* dnp3(data, control_code, src, dst): the list of packets, or the
\* exception the first failing packet raises.
dnp3(data, control_code, src, dst) ==
    LET num_packets == CeilDiv(Len(data), SegmentSize)
        loop[st \in [i : Nat, packets : Seq(Seq(Nat))]] ==
            IF st.i = num_packets THEN [err |-> NoErr, ret |-> st.packets]
            ELSE LET p == dnp3_packet(data, control_code, src, dst, st.i, num_packets)
                 IN  IF p.err # NoErr THEN p
                     ELSE loop[[i |-> st.i + 1, packets |-> Append(st.packets, p.ret)]]
    IN  loop[[i |-> 0, packets |-> <<>>]]

----------------------------------------------------------------------------
(* Stub aliases *)

\* Python values a stub is built from and hands on: a class, a string, an
\* exception instance with its args.
PyClass(name) == [type |-> "class", name |-> name]

PyStr(value) == [type |-> "str", value |-> value]

PyException(class, args) == [type |-> "exception", class |-> class, args |-> args]

\* f(x): calling a class makes an instance of it with args (x,); calling a
\* str raises TypeError.
PyCall(f, x) ==
    IF f.type = "class"
    THEN [err |-> NoErr, ret |-> PyException(f.name, <<x>>)]
    ELSE [err |-> "TypeError",
          ret |-> PyException("TypeError", <<"'" \o f.type \o "' object is not callable">>)]

\* The body of the function custom_raise(argument, msg) returns, applied
\* to x: `raise msg(argument(x))`.  The result is the exception raised.
custom_raise(argument, msg, x) ==
    LET inner == PyCall(argument, x)
        outer == PyCall(msg, inner.ret)
    IN  IF inner.err # NoErr THEN inner.ret ELSE outer.ret

\* The message of the s_binary_block_size_* and s_blocksize_* aliases.
SizerMessage ==
    "SizerNotUtilizedError: Use the s_size primitive for including sizes, arguments were"

\* The aliases that carry SizerMessage.
SizerAliases ==
    {"s_binary_block_size_intel_halfword_plus_variable",
     "s_binary_block_size_halfword_bigendian_variable",
     "s_binary_block_size_word_bigendian_plussome",
     "s_binary_block_size_word_bigendian_variable",
     "s_binary_block_size_halfword_bigendian_mult",
     "s_binary_block_size_intel_halfword_variable",
     "s_binary_block_size_intel_halfword_mult",
     "s_binary_block_size_intel_halfword_plus",
     "s_binary_block_size_halfword_bigendian",
     "s_binary_block_size_word_intel_mult_plus",
     "s_binary_block_size_intel_word_variable",
     "s_binary_block_size_word_bigendian_mult",
     "s_blocksize_unsigned_string_variable",
     "s_binary_block_size_intel_word_plus",
     "s_binary_block_size_intel_halfword",
     "s_binary_block_size_word_bigendian",
     "s_blocksize_signed_string_variable",
     "s_binary_block_size_byte_variable", "s_binary_block_size_intel_word",
     "s_binary_block_size_byte_plus", "s_binary_block_size_byte_mult",
     "s_blocksize_asciihex_variable", "s_binary_block_size_byte",
     "s_blocksize_asciihex", "s_blocksize_string"}

\* Every alias made by custom_raise, with the two arguments it was made
\* with.
Stubs ==
    {[alias |-> "s_string_lf", argument |-> PyClass("ValueError"),
      msg |-> PyStr("NotImplementedError: s_string_lf is not currently implemented, arguments were")],
     [alias |-> "s_string_or_env", argument |-> PyClass("ValueError"),
      msg |-> PyStr("NotImplementedError: s_string_or_env is not currently implemented, arguments were")],
     [alias |-> "s_string_repeat", argument |-> PyClass("ValueError"),
      msg |-> PyStr("NotImplementedError: s_string_repeat is not currently implemented, arguments were")],
     [alias |-> "s_string_variable", argument |-> PyClass("ValueError"),
      msg |-> PyStr("NotImplementedError: s_string_variable is not currently implemented, arguments were")],
     [alias |-> "s_string_variables", argument |-> PyClass("ValueError"),
      msg |-> PyStr("NotImplementedError: s_string_variables is not currently implemented, arguments were")],
     [alias |-> "s_binary_repeat", argument |-> PyClass("ValueError"),
      msg |-> PyStr("NotImplementedError: s_string_variables is not currently implemented, arguments were")],
     [alias |-> "s_unistring_variable", argument |-> PyClass("ValueError"),
      msg |-> PyStr("NotImplementedError: s_unistring_variable is not currently implemented, arguments were")],
     [alias |-> "s_xdr_string", argument |-> PyClass("ValueError"),
      msg |-> PyStr("LegoNotUtilizedError: XDR strings are available in the XDR lego, arguments were")]}
    \cup {[alias |-> a, argument |-> PyClass("ValueError"), msg |-> PyStr(SizerMessage)] :
            a \in SizerAliases}

StubNames == {s.alias : s \in Stubs}

\* The arguments of the alias called name.
Stub(name) == CHOOSE s \in Stubs : s.alias = name

\* A call name(x) of a stub alias: the exception is recorded by its class
\* and its args.
stub_call(name, x) ==
    LET raised == custom_raise(Stub(name).argument, Stub(name).msg, x)
    IN  /\ last' = Call(name, x, raised.class, raised.args)
        /\ UNCHANGED <<heap, REQUESTS, CURRENT, sweep>>

----------------------------------------------------------------------------
(* Runtime calls *)

\* What the observer of request c records for a mutate() call that took
\* the request from r to res.r: the sweep so far since the fresh state
\* (each step the leaf advanced, its sub-cursor and the values), the
\* previous completed sweep and whether one or more sweeps were completed.  An observation ends when the tree is no longer the
\* one the sweep started on.
Observed(c, r) == c \in DOMAIN sweep /\ sweep[c].shape = Fresh(r).nodes

Untouched(r) == r.cursor = 0 /\ \A i \in DOMAIN r.nodes : r.nodes[i].mi = 0

Observe(c, r, res) ==
    LET step == <<res.leaf, IF res.leaf = 0 THEN 0 ELSE res.r.nodes[res.leaf].mi,
                  [i \in DOMAIN res.r.nodes |-> res.r.nodes[i].value]>>
        rec == IF Observed(c, r)
               THEN IF res.ret
                    THEN [sweep[c] EXCEPT !.trace = Append(@, step)]
                    ELSE [sweep[c] EXCEPT !.trace = <<>>, !.prev = <<sweep[c].trace>>,
                                          !.done = IF @ = 0 THEN 1 ELSE 2]
               ELSE IF res.ret
                    THEN [shape |-> Fresh(r).nodes, trace |-> <<step>>,
                          prev |-> <<>>, done |-> 0]
                    ELSE [shape |-> Fresh(r).nodes, trace |-> <<>>,
                          prev |-> << <<>> >>, done |-> 1]
    IN  IF Observed(c, r) \/ Untouched(r)
        THEN [d \in DOMAIN sweep \cup {c} |-> IF d = c THEN rec ELSE sweep[d]]
        ELSE [d \in DOMAIN sweep \ {c} |-> sweep[d]]

s_mutate ==
    \/ NoCurrent("s_mutate", None)
    \/ /\ CURRENT # NoRequest
       /\ LET res == mutate(Cur)
          IN  /\ heap' = [heap EXCEPT ![CURRENT] = res.r]
              /\ last' = Call("s_mutate", None, NoErr, res.ret)
              /\ sweep' = Observe(CURRENT, Cur, res)
              /\ UNCHANGED <<REQUESTS, CURRENT>>

s_num_mutations ==
    \/ NoCurrent("s_num_mutations", None)
    \/ /\ CURRENT # NoRequest
       /\ last' = Call("s_num_mutations", None, NoErr, num_mutations(Cur))
       /\ UNCHANGED <<heap, REQUESTS, CURRENT, sweep>>

s_render ==
    \/ NoCurrent("s_render", None)
    \/ /\ CURRENT # NoRequest
       /\ LET res == render(Cur)
          IN  Store("s_render", None, res.r, res.ret)

----------------------------------------------------------------------------
(* The system *)

\* The groups declared in the current request: what a caller ties a block to.
DeclaredGroups ==
    IF CURRENT = NoRequest THEN {}
    ELSE {n \in DOMAIN Cur.names : Cur.nodes[Cur.names[n]].kind = "group"}

Init ==
    /\ heap = <<>>
    /\ REQUESTS = [n \in {} |-> 0]
    /\ CURRENT = NoRequest
    /\ last = Call("import", None, NoErr, None)
    /\ sweep = [c \in {} |-> 0]

\* The calls a specification author makes to declare requests and their
\* blocks, modifiers and legos.
Next ==
    \/ \E name \in ReqNames : s_initialize(name)
    \/ \E name \in ReqNames : s_switch(name)
    \/ \E name \in BlockNames : s_block_start(name, None)
    \/ \E name \in {None} \cup BlockNames : s_block_end(name)
    \/ \E t \in BlockNames : s_checksum(t)
    \/ \E t \in BlockNames : s_size(t)
    \/ \E t \in BlockNames : s_repeat(t)
    \/ s_static(83)
    \/ \E t \in LegoTypes : s_lego(t)

Spec == Init /\ [][Next]_vars

\* The calls that create requests and select one of them.
RegistryNext ==
    \/ \E name \in ReqNames : s_initialize(name)
    \/ \E name \in ReqNames : s_switch(name)
    \/ \E name \in ReqNames \cup {None} : s_get(name)
    \/ s_static(83)

RegistrySpec == Init /\ [][RegistryNext]_vars

\* The blocks of the current request that are closed: what a caller who
\* declares a modifier after its block names as the target.
ClosedBlocks ==
    IF CURRENT = NoRequest THEN {}
    ELSE {n \in DOMAIN Cur.names :
            /\ Cur.nodes[Cur.names[n]].kind = "block"
            /\ \A k \in DOMAIN Cur.block_stack : Cur.block_stack[k] # Cur.names[n]}

\* No sweep of the current request is under way: the shape of a request
\* is fixed while it is swept.
Declaring == IF CURRENT = NoRequest THEN TRUE ELSE Untouched(Cur)

\* The calls of a fuzzing run: a request is declared, then swept with
\* s_mutate and rendered.
SweepNext ==
    \/ s_initialize("A")
    \/ \E name \in BlockNames, group \in {None} \cup DeclaredGroups :
          Declaring /\ s_block_start(name, group)
    \/ Declaring /\ s_block_end(None)
    \/ \E t \in ClosedBlocks : Declaring /\ s_repeat(t)
    \/ Declaring /\ s_static(83)
    \/ Declaring /\ s_byte(0)
    \/ \E name \in GroupNames : Declaring /\ s_group(name)
    \/ s_mutate
    \/ s_num_mutations
    \/ s_render

SweepSpec == Init /\ [][SweepNext]_vars

\* No s_mutate call on the current request has been observed yet.
Unswept == CURRENT \notin DOMAIN sweep

\* The calls of a run that overrides field values: requests are declared
\* with groups, blocks and bytes, a first mutation is applied, and named
\* fields are updated before and after it.
UpdateNext ==
    \/ \E name \in ReqNames : s_initialize(name)
    \/ \E name \in GroupNames : Declaring /\ s_group(name)
    \/ Declaring /\ s_block_start("a", None)
    \/ Declaring /\ s_byte(0)
    \/ Unswept /\ s_mutate
    \/ \E name \in UpdateNames, value \in UpdateValues : s_update(name, value)

UpdateSpec == Init /\ [][UpdateNext]_vars

\* Longest input made of the sample bytes.
MaxCrcLen == 3

\* Bytes the longer inputs are made of: all bits clear, the lowest bit, the
\* highest bit, all bits set, and an ASCII digit.
SampleBytes == {0, 1, 128, 255, 49}

\* The ASCII string "123456789".
Digits1to9 == <<49, 50, 51, 52, 53, 54, 55, 56, 57>>

\* The inputs crcbitbybit is applied to: the empty string, every string of
\* one character, every string of 2 .. MaxCrcLen sample bytes, "123456789".
CrcInputs ==
    {<<>>} \cup {<<c>> : c \in 0..255}
    \cup UNION {[1..n -> SampleBytes] : n \in 2..MaxCrcLen}
    \cup {Digits1to9}

\* A call of crcbitbybit(p).
call_crcbitbybit(p) ==
    /\ last' = Call("crcbitbybit", p, NoErr, crcbitbybit(p))
    /\ UNCHANGED <<heap, REQUESTS, CURRENT, sweep>>

\* No call has been made since the import.
Imported == last.op = "import"

\* A call of CRC16(string=p).checksum().
call_checksum(p) ==
    LET res == checksum(CRC16(p))
    IN  /\ last' = Call("checksum", p, res.err, res.ret)
        /\ UNCHANGED <<heap, REQUESTS, CURRENT, sweep>>

\* A call of reflect(crc, bitnum).
call_reflect(crc, bitnum) ==
    /\ last' = Call("reflect", [crc |-> crc, bitnum |-> bitnum], NoErr, reflect(crc, bitnum))
    /\ UNCHANGED <<heap, REQUESTS, CURRENT, sweep>>

\* Largest of the small values reflect is applied to.
MaxSmallCrc == 70

\* The values reflect is applied to: every small one, and values around
\* 8, 16 and 17 bits, alternating bits among them.
ReflectInputs ==
    (0..MaxSmallCrc) \cup {85, 170, 255, 256, 257, 21845, 43690, 32768, 65535,
                           65536, 65537, 98304, 131071}

\* The widths reflect is applied to.
BitNums == 1..16

\* A user of sulley.utils.crc16 who makes one call.
CrcNext ==
    \/ \E p \in CrcInputs : Imported /\ call_crcbitbybit(p)
    \/ \E p \in CrcInputs : Imported /\ call_checksum(p)
    \/ \E crc \in ReflectInputs : \E bitnum \in BitNums :
          Imported /\ call_reflect(crc, bitnum)

CrcSpec == Init /\ [][CrcNext]_vars

\* Longest of the short payloads.
MaxShortPayload == 60

\* Payload lengths: every short one, those around one and two full
\* packets, and one of 66 packets.
PayloadLengths == (0..MaxShortPayload) \cup {249, 250, 251, 500, 501, 16251}

\* Payloads of n bytes: counting up, and counting down.
Payloads(n) == {[k \in 1..n |-> k % 256], [k \in 1..n |-> 255 - (k % 256)]}

\* control_code, src and dst: the defaults, and values that tell them apart.
Headers ==
    {[control_code |-> <<68>>, src |-> <<0, 0>>, dst |-> <<0, 0>>],
     [control_code |-> <<196>>, src |-> <<2, 0>>, dst |-> <<1, 0>>]}

\* A call of dnp3.
call_dnp3(data, control_code, src, dst) ==
    LET res == dnp3(data, control_code, src, dst)
    IN  /\ last' = Call("dnp3",
                        [data |-> data, control_code |-> control_code,
                         src |-> src, dst |-> dst],
                        res.err, res.ret)
        /\ UNCHANGED <<heap, REQUESTS, CURRENT, sweep>>

\* A user of sulley.utils.scada who makes one call.
ScadaNext ==
    \E n \in PayloadLengths : \E data \in Payloads(n) : \E h \in Headers :
        Imported /\ call_dnp3(data, h.control_code, h.src, h.dst)

ScadaSpec == Init /\ [][ScadaNext]_vars

\* Most digit pairs in one input of s_binary.
MaxPairs == 2

\* Digit pairs: one that ends and one that starts with the digit of "0x",
\* the latter with a letter in upper case.
DigitPairs == {<<"1", "0">>, <<"0", "F">>}

\* The separators s_binary accepts.
Separators ==
    {<<"0", "x">>, <<"\\", "x">>, <<" ">>, <<"\t">>, <<"\r">>, <<"\n">>, <<",">>}

\* What a caller writes before the first pair, between two pairs and after
\* the last pair: nothing, a separator, or two of them.
Leading == {<<>>, <<"0", "x">>, <<"\\", "x">>}
Between ==
    {<<>>} \cup Separators
    \cup {<<",", " ">>, <<",", "0", "x">>, <<" ", "\\", "x">>, <<"\\", "x", "0", "x">>}
Trailing == {<<>>, <<",", "7">>}

RECURSIVE Written(_)
\* The strings made of n digit pairs, n >= 1, with what is written between
\* them.
Written(n) ==
    IF n = 1 THEN DigitPairs
    ELSE {w \o b \o d : w \in Written(n - 1), b \in Between, d \in DigitPairs}

\* The inputs of s_binary: up to MaxPairs digit pairs with separators, and
\* possibly a last digit on its own.
BinaryInputs ==
    {l \o t : l \in Leading, t \in Trailing}
    \cup UNION {{l \o w \o t : l \in Leading, w \in Written(n), t \in Trailing} :
                  n \in 1..MaxPairs}

\* The current request, if there is one, holds no item, and s_binary was
\* not the last call.
Blank ==
    /\ last.op # "s_binary"
    /\ IF CURRENT = NoRequest THEN TRUE ELSE Cur.nodes = <<>>

\* A caller who declares a request of one s_binary.
BinaryNext ==
    \/ s_initialize("A")
    \/ \E value \in BinaryInputs : Blank /\ s_binary(value)

BinarySpec == Init /\ [][BinaryNext]_vars

\* Longest malformed input of s_binary.
MaxRawLen == 3

\* Characters of the malformed inputs: digits, a letter that is no digit,
\* the signs, an "x", a separator and a form feed.
RawChars == {"a", "1", "0", "g", "+", "-", "x", ",", "\f"}

\* The inputs of a caller who writes raw hex by hand.
RawInputs == UNION {[1..n -> RawChars] : n \in 1..MaxRawLen}

\* A caller who declares a request of one hand-written s_binary.
RawNext ==
    \/ s_initialize("A")
    \/ \E value \in RawInputs : Blank /\ s_binary(value)

RawSpec == Init /\ [][RawNext]_vars

\* Number of CRC16 objects a caller makes.
MaxObjects == 2

\* Number of bytes one CRC16 object is given in all.
MaxFed == 3

\* The pieces a caller hands to CRC16() and update(): "", "1", "2", "12", "21", ...
Pieces == UNION {[1..n -> {49, 50}] : n \in 0..2}

\* A user of class CRC16: makes objects, feeds them piece by piece and
\* reads the checksum.
HashNext ==
    \/ \E string \in Pieces : Len(heap) < MaxObjects /\ CRC16_init(string)
    \/ \E c \in DOMAIN heap : \E string \in Pieces :
          Len(sweep[c]) + Len(string) <= MaxFed /\ CRC16_update(c, string)
    \/ \E c \in DOMAIN heap : CRC16_intchecksum(c)

HashSpec == Init /\ [][HashNext]_vars

\* What a caller passes to a stub alias.
StubArgs == {"", "x", "AAAA"}

\* A caller who declares a request of statics and calls stub aliases in
\* between.
StubNext ==
    \/ s_initialize("A")
    \/ s_static(83)
    \/ \E name \in StubNames : \E x \in StubArgs : stub_call(name, x)

StubSpec == Init /\ [][StubNext]_vars

----------------------------------------------------------------------------
(* Properties of the mutation sweep (SweepSpec) *)

\* The number of s_mutate calls that returned True since the request was
\* last at the start of a sweep, where the observer knows it.
Tracked(c, r) == Observed(c, r) \/ Untouched(r)
SeenBefore(c, r) == IF Observed(c, r) THEN Len(sweep[c].trace) ELSE 0

\* C1: from a fresh or just-reset request, s_mutate returns True exactly
\* num_mutations() times, the next call returns False and puts the whole
\* cursor state back at the start, and a sweep that follows a completed
\* sweep visits the same (leaf, candidate) states in the same order.
C1_SweepCycle ==
    [][ (last'.op = "s_mutate" /\ last'.err = NoErr /\ Tracked(CURRENT, Cur)) =>
          LET r == Cur
              n == num_mutations(r)
              k == SeenBefore(CURRENT, r)
          IN  /\ k <= n
              /\ last'.ret = (k < n)
              /\ (k = n => heap'[CURRENT] = Fresh(r))
              /\ (k = n /\ Observed(CURRENT, r) /\ sweep[CURRENT].prev # <<>>
                    => sweep[CURRENT].trace = sweep[CURRENT].prev[1]) ]_vars

\* C1 witness: a second complete sweep of a request with a group-tied
\* block has just ended with False.
C1_Witness ==
    /\ CURRENT # NoRequest
    /\ last.op = "s_mutate" /\ last.err = NoErr /\ last.ret = FALSE
    /\ CURRENT \in DOMAIN sweep
    /\ sweep[CURRENT].done = 2
    /\ sweep[CURRENT].shape = Fresh(Cur).nodes
    /\ Len(sweep[CURRENT].prev[1]) >= 4
    /\ \E b \in DOMAIN Cur.nodes : Bound(Cur, b) /\ LeavesIn(Cur, b) # {}

RECURSIVE Weight(_, _)
\* How often the sweep visits the place of item i: the product of the
\* repetitions of the group-tied blocks around it.
Weight(r, i) ==
    IF r.nodes[i].parent = 0 THEN 1
    ELSE Reps(r, r.nodes[i].parent) * Weight(r, r.nodes[i].parent)

RECURSIVE LeafSum(_, _, _)
\* Sum over the items at index >= i of the candidate count, each taken
\* once (weighted = FALSE) or once per visit of the sweep (weighted = TRUE).
LeafSum(r, i, weighted) ==
    IF i > Len(r.nodes) THEN 0
    ELSE Count(r, i) * (IF weighted THEN Weight(r, i) ELSE 1)
         + LeafSum(r, i + 1, weighted)

----------------------------------------------------------------------------
(* Properties of construction (Spec) *)

\* The names of the blocks of r that are open.
OpenNames(r) == {r.nodes[r.block_stack[k]].name : k \in DOMAIN r.block_stack}

Modifiers == {"s_checksum", "s_size", "s_repeat"}

\* C4: s_checksum and s_size fail when block_name names a block that is
\* open in the current request, at every depth of the open-block stack.
C4_OpenTargetRejected ==
    (last.op \in {"s_checksum", "s_size"} /\ CURRENT # NoRequest
        /\ last.arg \in OpenNames(Cur))
        => last.err # NoErr

\* C5: s_repeat fails when block_name names a block that is open in the
\* current request.
C5_RepeatOpenTargetRejected ==
    (last.op = "s_repeat" /\ CURRENT # NoRequest /\ last.arg \in OpenNames(Cur))
        => last.err # NoErr

ConstructionCalls ==
    {"s_block_start", "s_block_end", "s_checksum", "s_size", "s_repeat",
     "s_static", "s_byte", "s_group", "s_lego"}

\* C7: a construction call that fails leaves the requests, the registry
\* and the current-request selector as they were.
C7_FailedCallChangesNothing ==
    [][ (last'.op \in ConstructionCalls /\ last'.err # NoErr) =>
          /\ heap' = heap
          /\ REQUESTS' = REQUESTS
          /\ CURRENT' = CURRENT ]_vars

\* C7 witness: s_lego failed for an unknown lego type on a request that
\* already holds items and has a block open.
C7_Witness ==
    /\ CURRENT # NoRequest
    /\ last.op = "s_lego" /\ last.err = "INVALID LEGO TYPE SPECIFIED"
    /\ Cur.block_stack # <<>>
    /\ Len(Cur.nodes) >= 2

----------------------------------------------------------------------------
(* Properties of the registry (RegistrySpec) *)

\* C8: s_initialize(name) fails and changes nothing when name is
\* registered; otherwise it registers exactly one new, empty request under
\* name, keeps every other entry and makes the new request current.
C8_Initialize ==
    [][ last'.op = "s_initialize" =>
          IF last'.arg \in DOMAIN REQUESTS
          THEN /\ last'.err # NoErr
               /\ REQUESTS' = REQUESTS /\ CURRENT' = CURRENT /\ heap' = heap
          ELSE /\ last'.err = NoErr
               /\ DOMAIN REQUESTS' = DOMAIN REQUESTS \cup {last'.arg}
               /\ \A n \in DOMAIN REQUESTS :
                     /\ REQUESTS'[n] = REQUESTS[n]
                     /\ heap'[REQUESTS[n]] = heap[REQUESTS[n]]
                     /\ REQUESTS'[last'.arg] # REQUESTS[n]
               /\ CURRENT' = REQUESTS'[last'.arg]
               /\ heap'[CURRENT'] = request(last'.arg) ]_vars

\* C8 witness: a second request was registered while the first one holds
\* items.
C8_Witness ==
    /\ last.op = "s_initialize" /\ last.err = NoErr
    /\ Cardinality(DOMAIN REQUESTS) = 2
    /\ \E n \in DOMAIN REQUESTS : heap[REQUESTS[n]].nodes # <<>>

\* C9: s_switch(name) fails and keeps the current request when name is not
\* registered, makes the request registered under name current when it
\* is, and never changes the registry.
C9_Switch ==
    [][ last'.op = "s_switch" =>
          /\ REQUESTS' = REQUESTS /\ heap' = heap
          /\ IF last'.arg \in DOMAIN REQUESTS
             THEN last'.err = NoErr /\ CURRENT' = REQUESTS[last'.arg]
             ELSE last'.err # NoErr /\ CURRENT' = CURRENT ]_vars

\* C9 witness: s_switch failed while a request was current.
C9_Witness ==
    /\ last.op = "s_switch" /\ last.err # NoErr
    /\ CURRENT # NoRequest

\* C10: s_get(name) returns the request registered under name and makes it
\* current, for every registered name; s_get() returns the current request
\* and keeps the selector; s_get of an unregistered name fails and keeps
\* the selector.
C10_Get ==
    [][ last'.op = "s_get" =>
          IF last'.arg = None
          THEN last'.err = NoErr /\ last'.ret = CURRENT /\ CURRENT' = CURRENT
          ELSE IF last'.arg \in DOMAIN REQUESTS
          THEN /\ last'.err = NoErr
               /\ last'.ret = REQUESTS[last'.arg]
               /\ CURRENT' = REQUESTS[last'.arg]
          ELSE last'.err # NoErr /\ CURRENT' = CURRENT ]_vars

\* The current request is unset, or it is the request the registry holds
\* under the request's own name.
CurrentIsRegistered ==
    \/ CURRENT = NoRequest
    \/ /\ CURRENT \in DOMAIN heap
       /\ heap[CURRENT].name \in DOMAIN REQUESTS
       /\ REQUESTS[heap[CURRENT].name] = CURRENT

\* C23: after every s_initialize, s_switch and s_get, failed or not, the
\* current request is unset or is the request registered under its own
\* name; a registered name stays registered to the same request; a call
\* that fails changes neither the registry nor the selector.
C23_RegistryInvariant ==
    [][ /\ CurrentIsRegistered'
        /\ \A n \in DOMAIN REQUESTS :
              n \in DOMAIN REQUESTS' /\ REQUESTS'[n] = REQUESTS[n]
        /\ (last'.op \in {"s_initialize", "s_switch", "s_get"} /\ last'.err # NoErr)
              => REQUESTS' = REQUESTS /\ CURRENT' = CURRENT ]_vars

\* C23 witness: s_get of an unregistered name failed while a request that
\* holds items is registered and current.
C23_Witness ==
    /\ last.op = "s_get" /\ last.err # NoErr
    /\ CURRENT # NoRequest
    /\ heap[CURRENT].nodes # <<>>
    /\ REQUESTS[heap[CURRENT].name] = CURRENT

----------------------------------------------------------------------------
(* Properties of s_update (UpdateSpec) *)

\* The request with every field value blanked: its tree shape, name table,
\* open-block stack and mutation cursors.
Valueless(r) ==
    [r EXCEPT !.nodes = [i \in DOMAIN r.nodes |-> [r.nodes[i] EXCEPT !.value = 0]]]

\* C11: s_update(name, value) fails and changes no request when name is
\* not in the current request's name table; otherwise the named item's
\* value becomes value, every other item's value, the name table, the tree
\* shape, the open-block stack and the mutation cursors of the current
\* request stay as they were, and no other request changes.
C11_Update ==
    [][ (last'.op = "s_update" /\ CURRENT # NoRequest) =>
          LET name == last'.arg[1]
              value == last'.arg[2]
              r == Cur
              q == heap'[CURRENT]
          IN  /\ REQUESTS' = REQUESTS /\ CURRENT' = CURRENT
              /\ \A c \in DOMAIN heap : c # CURRENT => heap'[c] = heap[c]
              /\ DOMAIN heap' = DOMAIN heap
              /\ IF name \notin DOMAIN r.names
                 THEN last'.err # NoErr /\ q = r
                 ELSE /\ last'.err = NoErr
                      /\ q.nodes[r.names[name]].value = value
                      /\ \A i \in DOMAIN r.nodes :
                            i # r.names[name] => q.nodes[i].value = r.nodes[i].value
                      /\ Valueless(q) = Valueless(r) ]_vars

\* C11 witness: s_update has just changed the value of a named item of a
\* request that is in mid-sweep and holds a second item with another
\* value, while another request holds items too.
C11_Witness ==
    /\ CURRENT # NoRequest
    /\ last.op = "s_update" /\ last.err = NoErr
    /\ ~Untouched(Cur)
    /\ Cur.nodes[Cur.names[last.arg[1]]].value = last.arg[2]
    /\ Cur.nodes[Cur.names[last.arg[1]]].original_value # last.arg[2]
    /\ \E i \in DOMAIN Cur.nodes : Cur.nodes[i].value \notin {0, last.arg[2]}
    /\ \E c \in DOMAIN heap : c # CURRENT /\ heap[c].nodes # <<>>

----------------------------------------------------------------------------
(* Properties of the open-block stack (Spec) *)

\* The open-block stack of r lists blocks of r, the first a child of the
\* request and each other one the child of the one before it, in the order
\* they were declared.
StackInOrder(r) ==
    \A k \in DOMAIN r.block_stack :
        /\ r.block_stack[k] \in DOMAIN r.nodes
        /\ r.nodes[r.block_stack[k]].kind = "block"
        /\ k > 1 => /\ r.block_stack[k - 1] < r.block_stack[k]
                    /\ r.nodes[r.block_stack[k]].parent = r.block_stack[k - 1]
        /\ k = 1 => r.nodes[r.block_stack[k]].parent = 0

\* C12: s_block_end fails when no block of the current request is open and
\* otherwise removes the most recently opened open block from the stack,
\* whatever name it is given; s_block_start puts the new block last on the
\* stack; no other call changes an open-block stack; so the stack holds
\* the opened and not yet closed blocks in opening order.
C12_StackDiscipline ==
    [][ CURRENT # NoRequest =>
          LET open == Cur.block_stack
              q == heap'[CURRENT]
          IN  /\ \A c \in DOMAIN heap : c # CURRENT =>
                     heap'[c].block_stack = heap[c].block_stack
              /\ \A c \in DOMAIN heap' : StackInOrder(heap'[c])
              /\ CASE last'.op = "s_block_end" ->
                        IF open = <<>>
                        THEN last'.err # NoErr /\ q = Cur
                        ELSE /\ last'.err = NoErr
                             /\ q.block_stack = SubSeq(open, 1, Len(open) - 1)
                             /\ q.nodes = Cur.nodes
                   [] last'.op = "s_block_start" /\ last'.err = NoErr ->
                        /\ q.block_stack = Append(open, Len(Cur.nodes) + 1)
                        /\ q.nodes[Len(Cur.nodes) + 1].kind = "block"
                   [] OTHER -> q.block_stack = open ]_vars

\* C12 witness: with two blocks open, s_block_end was given the name of the
\* outer one and closed the inner one.
C12_Witness ==
    /\ CURRENT # NoRequest
    /\ last.op = "s_block_end" /\ last.err = NoErr
    /\ Len(Cur.block_stack) = 1
    /\ Cur.nodes[Cur.block_stack[1]].name = last.arg
    /\ \E i \in DOMAIN Cur.nodes :
          /\ Cur.nodes[i].kind = "block"
          /\ Cur.nodes[i].parent = Cur.block_stack[1]

----------------------------------------------------------------------------
(* Properties of crcbitbybit (CrcSpec) *)

\* Bit k of n.
BitOf(n, k) == (n \div (2 ^ k)) % 2

\* One round of the construction: the register is shifted left by one
\* within 16 bits, the message bit enters at bit 0, and 0x1021 is XORed in
\* when a 1 was shifted out.
Round(reg, msgbit) ==
    LET carry == BitOf(reg, 15)
        moved == ((2 * reg) % 65536) + msgbit
    IN  IF carry = 0 THEN moved
        ELSE LET bits == [k \in 0..15 |-> (BitOf(moved, k) + BitOf(4129, k)) % 2]
             IN  bits[0] + 2 * bits[1] + 4 * bits[2] + 8 * bits[3]
                 + 16 * bits[4] + 32 * bits[5] + 64 * bits[6] + 128 * bits[7]
                 + 256 * (bits[8] + 2 * bits[9] + 4 * bits[10] + 8 * bits[11]
                          + 16 * bits[12] + 32 * bits[13] + 64 * bits[14]
                          + 128 * bits[15])

\* The register after the message bits msg, in order, went through a round
\* each.
Rounds(reg, msg) ==
    LET after[st \in [reg : Nat, k : Nat]] ==
            IF st.k > Len(msg) THEN st.reg
            ELSE after[[reg |-> Round(st.reg, msg[st.k]), k |-> st.k + 1]]
    IN  after[[reg |-> reg, k |-> 1]]

\* The message bits one input byte contributes when it takes n rounds: its
\* 8 bits reflected (bit 0 first), then zero bits up to n.
ByteBits(byte, n) == [k \in 1..n |-> IF k <= 8 THEN BitOf(byte, k - 1) ELSE 0]

\* The register after every byte of p went through its n rounds.
AllBytes(p, n) ==
    LET after[st \in [reg : Nat, i : Nat]] ==
            IF st.i > Len(p) THEN st.reg
            ELSE after[[reg |-> Rounds(st.reg, ByteBits(p[st.i], n)), i |-> st.i + 1]]
    IN  after[[reg |-> 0, i |-> 1]]

\* The 16 bits of reg in reverse order.
Reflect16(reg) ==
    LET bits == [k \in 0..15 |-> BitOf(reg, 15 - k)]
    IN  bits[0] + 2 * bits[1] + 4 * bits[2] + 8 * bits[3]
        + 16 * bits[4] + 32 * bits[5] + 64 * bits[6] + 128 * bits[7]
        + 256 * (bits[8] + 2 * bits[9] + 4 * bits[10] + 8 * bits[11]
                 + 16 * bits[12] + 32 * bits[13] + 64 * bits[14]
                 + 128 * bits[15])

\* The specified construction with n rounds per input byte: from register
\* 0, the bytes' bits, 16 trailing zero rounds, the result reflected.
Construction(p, n) == Reflect16(Rounds(AllBytes(p, n), [k \in 1..16 |-> 0]))

\* C13 as stated: crcbitbybit makes 16 rounds per input byte.
C13_SixteenRoundsPerByte ==
    last.op = "crcbitbybit" => last.ret = Construction(last.arg, 16)

\* C13 amended: crcbitbybit starts from register 0, takes each input byte
\* reflected through 8 rounds of shift and XOR of 0x1021 on carry (one
\* round per bit of the byte), then makes 16 trailing zero rounds and
\* reflects the 16-bit result.
C13_EightRoundsPerByte ==
    last.op = "crcbitbybit" => last.ret = Construction(last.arg, 8)

\* C13 witness: crcbitbybit was applied to a string of several characters
\* for which 8 and 16 rounds per byte give different results.
C13_Witness ==
    /\ last.op = "crcbitbybit"
    /\ Len(last.arg) >= 2
    /\ Construction(last.arg, 8) # Construction(last.arg, 16)
    /\ last.ret # 0

\* The XOR of two 16-bit values, bit by bit.
Xor16(a, b) ==
    LET RECURSIVE Up(_)
        Up(k) == IF k = 16 THEN 0
                 ELSE ((BitOf(a, k) + BitOf(b, k)) % 2) + (2 * Up(k + 1))
    IN  Up(0)

\* The reference CRC16 of the reflected CCITT kind (polynomial 0x1021, its
\* bit reversal 0x8408 = 33800, initial value 0, input and output
\* reflected, no final XOR): the byte is XORed into the low end of the
\* register, which is then shifted right 8 times, 0x8408 being XORed in
\* whenever a 1 is shifted out.
ReferenceByte(crc, byte) ==
    LET RECURSIVE Shift(_, _)
        Shift(reg, n) ==
            IF n = 0 THEN reg
            ELSE Shift(IF reg % 2 = 1 THEN Xor16(reg \div 2, 33800) ELSE reg \div 2,
                       n - 1)
    IN  Shift(Xor16(crc, byte), 8)

ReferenceCrc(p) ==
    LET after[st \in [crc : Nat, i : Nat]] ==
            IF st.i > Len(p) THEN st.crc
            ELSE after[[crc |-> ReferenceByte(st.crc, p[st.i]), i |-> st.i + 1]]
    IN  after[[crc |-> 0, i |-> 1]]

\* C14: crcbitbybit returns the value of the reference CRC16 for every
\* input; it returns 0x2189 = 8585 for "123456789" and 0 for the empty
\* string.
C14_MatchesReference ==
    last.op = "crcbitbybit" =>
        /\ last.ret = ReferenceCrc(last.arg)
        /\ last.arg = Digits1to9 => last.ret = 8585
        /\ last.arg = <<>> => last.ret = 0

\* C14 witness: crcbitbybit was applied to "123456789" and returned 0x2189.
C14_Witness ==
    /\ last.op = "crcbitbybit"
    /\ last.arg = Digits1to9
    /\ last.ret = 8585
    /\ ReferenceCrc(last.arg) = 8585

\* The register of the masked reference after the bytes of p and the 16
\* trailing zero rounds: every shift stays within 16 bits.
MaskedRegister(p) == Rounds(AllBytes(p, 8), [k \in 1..16 |-> 0])

\* The register of crcbitbybit(p) after its second loop, not masked.
Unmasked(p) == zero_loop(bytes_loop(p))

\* C25: crcbitbybit returns a value in 0..0xFFFF for every input; the low
\* 16 bits of the register its unmasked trailing rounds leave are the
\* register of the reference that masks after every shift; and checksum()
\* is two bytes, the high byte and then the low byte of the value.
C25_SixteenBits ==
    /\ last.op = "crcbitbybit" =>
          /\ last.ret \in 0..65535
          /\ Unmasked(last.arg).lo = MaskedRegister(last.arg)
          /\ last.ret = Reflect16(MaskedRegister(last.arg))
    /\ last.op = "checksum" =>
          /\ last.err = NoErr
          /\ Len(last.ret) = 2
          /\ \A k \in 1..2 : last.ret[k] \in 0..255
          /\ (256 * last.ret[1]) + last.ret[2] = Reflect16(MaskedRegister(last.arg))

\* C25 witness: checksum() was called for a string whose register grew
\* beyond 16 bits in the trailing rounds, and whose value has a high byte.
C25_Witness ==
    /\ last.op = "checksum" /\ last.err = NoErr
    /\ Unmasked(last.arg).hi > 0
    /\ last.ret[1] > 0

\* C26: for every width n in 1..16 and every x >= 0, reflect(x, n) is in
\* 0..2^n-1, its bit b is bit n-1-b of x, and reflecting it again gives
\* x mod 2^n.
C26_Reflect ==
    last.op = "reflect" =>
        LET x == last.arg.crc
            n == last.arg.bitnum
        IN  /\ last.ret \in 0..((2 ^ n) - 1)
            /\ \A b \in 0..(n - 1) : BitOf(last.ret, b) = BitOf(x, n - 1 - b)
            /\ reflect(last.ret, n) = x % (2 ^ n)

\* C26 witness: reflect was applied to a value with bits above the width,
\* and its result differs from the low bits it was given.
C26_Witness ==
    /\ last.op = "reflect"
    /\ last.arg.crc >= 2 ^ last.arg.bitnum
    /\ last.ret # last.arg.crc % (2 ^ last.arg.bitnum)
    /\ last.ret # 0

----------------------------------------------------------------------------
(* Properties of dnp3 (ScadaSpec) *)

\* The number of segments a payload of n bytes is split into.
NumSegments(n) == IF n % 250 = 0 THEN n \div 250 ELSE (n \div 250) + 1

\* The part of the payload that segment i (0-based) carries.
SliceOf(data, i) ==
    LET len == IF 250 * (i + 1) <= Len(data) THEN 250 ELSE Len(data) - (250 * i)
    IN  [j \in 1..len |-> data[(250 * i) + j]]

\* What follows the flag byte of a segment, cut into groups of a 2-byte
\* CRC and up to 16 bytes of data.
GroupsOf(seg) ==
    LET body == SubSeq(seg, 12, Len(seg))
        count == IF Len(body) % 18 = 0 THEN Len(body) \div 18
                 ELSE (Len(body) \div 18) + 1
    IN  [x \in 1..count |->
            LET from == (18 * (x - 1)) + 1
                to == IF 18 * x <= Len(body) THEN 18 * x ELSE Len(body)
            IN  [crc |-> SubSeq(body, from, from + 1),
                 chunk |-> SubSeq(body, from + 2, to)]]

RECURSIVE Joined(_)
\* The sequences of a sequence, concatenated.
Joined(ss) == IF ss = <<>> THEN <<>> ELSE Head(ss) \o Joined(Tail(ss))

\* The data chunks of a segment, concatenated in order.
ChunkData(seg) == Joined([x \in DOMAIN GroupsOf(seg) |-> GroupsOf(seg)[x].chunk])

\* dnp3 was called on a non-empty payload.
Framed == last.op = "dnp3" /\ Len(last.arg.data) >= 1

\* dnp3 returned one segment per slice of the payload.
Segmented ==
    /\ last.err = NoErr
    /\ Len(last.ret) = NumSegments(Len(last.arg.data))
    /\ \A i \in DOMAIN last.ret : Len(last.ret[i]) >= 11

\* C15: segment i of the k segments of a payload carries the flag byte i,
\* with 0x40 added when i = 0 and 0x80 added when i = k - 1; 250 bytes give
\* one segment with flag 0xC0, 251 bytes two with flags 0x40 and 0x81.
C15_FragmentationFlags ==
    Framed =>
        /\ Segmented
        /\ \A i \in 0..(Len(last.ret) - 1) :
              last.ret[i + 1][11] = i + (IF i = 0 THEN 64 ELSE 0)
                                      + (IF i = Len(last.ret) - 1 THEN 128 ELSE 0)
        /\ Len(last.arg.data) = 250 => Len(last.ret) = 1 /\ last.ret[1][11] = 192
        /\ Len(last.arg.data) = 251 =>
              Len(last.ret) = 2 /\ last.ret[1][11] = 64 /\ last.ret[2][11] = 129

\* C24: for every payload the flag byte of segment i of k is a byte value
\* whose bit 0x40 is set exactly when i = 0, whose bit 0x80 is set exactly
\* when i = k - 1 and whose low 6 bits are those of i, also for i >= 64.
C24_FlagUnambiguous ==
    Framed =>
        /\ Segmented
        /\ \A i \in 0..(Len(last.ret) - 1) :
              LET flag == last.ret[i + 1][11]
              IN  /\ flag \in 0..255
                  /\ (BitAnd(flag, 64) # 0) <=> (i = 0)
                  /\ (BitAnd(flag, 128) # 0) <=> (i = Len(last.ret) - 1)
                  /\ flag % 64 = i % 64

\* C16: the data chunks of every segment are the consecutive pieces of at
\* most 16 bytes of the segment's own slice, chunk x being slice[16x:16x+16].
C16_ChunksAreTheSlice ==
    Framed =>
        /\ Segmented
        /\ \A i \in 0..(Len(last.ret) - 1) :
              LET slice == SliceOf(last.arg.data, i)
                  groups == GroupsOf(last.ret[i + 1])
              IN  /\ ChunkData(last.ret[i + 1]) = slice
                  /\ \A x \in DOMAIN groups :
                        groups[x].chunk =
                            SubSeq(slice, (16 * (x - 1)) + 1,
                                   IF 16 * x <= Len(slice) THEN 16 * x ELSE Len(slice))

\* C17: in every segment each data chunk directly follows the 2 bytes of
\* the CRC16 of that chunk alone, and a segment holds ceil(len(slice)/16)
\* pairs of CRC and chunk.
C17_ChunkCrcs ==
    Framed =>
        /\ Segmented
        /\ \A i \in 0..(Len(last.ret) - 1) :
              LET seg == last.ret[i + 1]
                  groups == GroupsOf(seg)
              IN  /\ Len(groups) = (seg[3] + 15) \div 16
                  /\ \A x \in DOMAIN groups :
                        /\ Len(groups[x].chunk) \in 1..16
                        /\ groups[x].crc[1] + (256 * groups[x].crc[2])
                              = crcbitbybit(groups[x].chunk)

\* C18: a payload of n bytes gives ceil(n/250) segments, none for the empty
\* payload; their slices have 1 to 250 bytes, only the last one fewer than
\* 250, and joined in order they are the payload.
C18_Segmentation ==
    last.op = "dnp3" =>
        /\ last.err = NoErr
        /\ Len(last.ret) = NumSegments(Len(last.arg.data))
        /\ \A i \in DOMAIN last.ret :
              /\ Len(last.ret[i]) >= 11
              /\ last.ret[i][3] \in 1..250
              /\ i < Len(last.ret) => last.ret[i][3] = 250
              /\ Len(ChunkData(last.ret[i])) = last.ret[i][3]
        /\ Joined([i \in DOMAIN last.ret |-> ChunkData(last.ret[i])]) = last.arg.data

\* C19: every segment starts with 0x05 0x64, the length of its slice, the
\* control code, the destination, the source and the 2-byte CRC16 of these
\* 8 bytes, directly followed by the flag byte and then the first chunk's
\* CRC.
C19_Header ==
    Framed =>
        /\ Segmented
        /\ \A i \in 0..(Len(last.ret) - 1) :
              LET seg == last.ret[i + 1]
                  slice == SliceOf(last.arg.data, i)
              IN  /\ SubSeq(seg, 1, 8) = <<5, 100, Len(slice)>> \o last.arg.control_code
                                            \o last.arg.dst \o last.arg.src
                  /\ seg[9] + (256 * seg[10]) = ReferenceCrc(SubSeq(seg, 1, 8))
                  /\ Len(seg) >= 13
                  /\ seg[12] + (256 * seg[13])
                        = ReferenceCrc(SubSeq(slice, 1, IF Len(slice) < 16 THEN Len(slice)
                                                        ELSE 16))

----------------------------------------------------------------------------
(* Properties of s_binary (BinarySpec) *)

\* The digits of value: its characters without blanks, tabs, carriage
\* returns, newlines and commas, without every "x" and without the "0" or
\* the backslash that an "x" follows.
DigitsOf(value) ==
    LET keep(k) == /\ IsHexDigit(value[k])
                   /\ ~(k < Len(value) /\ value[k + 1] = "x")
    IN  SelectSeq([k \in DOMAIN value |-> IF keep(k) THEN value[k] ELSE "-"],
                  LAMBDA c : c # "-")

\* The value of the hexadecimal digit c.
DigitValue(c) ==
    CASE c \in {"0", "1", "2", "3", "4", "5", "6", "7", "8", "9"} ->
            CHOOSE v \in 0..9 : HexLower[v + 1] = c
      [] c \in {"a", "A"} -> 10
      [] c \in {"b", "B"} -> 11
      [] c \in {"c", "C"} -> 12
      [] c \in {"d", "D"} -> 13
      [] c \in {"e", "E"} -> 14
      [] c \in {"f", "F"} -> 15

\* Byte k is the value of digit pair k; a last digit on its own is a byte.
BytesOf(digits) ==
    [k \in 1..((Len(digits) + 1) \div 2) |->
        IF 2 * k <= Len(digits)
        THEN (16 * DigitValue(digits[(2 * k) - 1])) + DigitValue(digits[2 * k])
        ELSE DigitValue(digits[(2 * k) - 1])]

\* C20: s_binary pushes a static whose bytes are those of the digits of its
\* input, whatever separators are written between the digit pairs: the
\* same bytes as for the digits alone.
C20_SeparatorsIgnored ==
    (last.op = "s_binary" /\ CURRENT # NoRequest) =>
        /\ last.err = NoErr
        /\ Len(Cur.nodes) = 1
        /\ Cur.nodes[1].kind = "static"
        /\ Cur.nodes[1].value = BytesOf(DigitsOf(last.arg))
        /\ pairs_loop(strip(DigitsOf(last.arg))).ret = Cur.nodes[1].value

\* C20 witness: s_binary pushed two bytes or more for an input that holds
\* "0x", "\x" and a digit pair ending in 0.
C20_Witness ==
    /\ last.op = "s_binary" /\ last.err = NoErr /\ CURRENT # NoRequest
    /\ Len(Cur.nodes) = 1
    /\ Len(Cur.nodes[1].value) >= 2
    /\ Len(last.arg) > Len(DigitsOf(last.arg)) + 3
    /\ \E k \in 1..(Len(last.arg) - 3) :
          SubSeq(last.arg, k, k + 3) = <<"1", "0", "0", "x">>
    /\ \E k \in 1..(Len(last.arg) - 1) : SubSeq(last.arg, k, k + 1) = <<"\\", "x">>

\* What is left of value after the separators were taken out is malformed:
\* it holds a character that is no hexadecimal digit, or an odd number of
\* digits.
Malformed(value) ==
    LET rest == strip(value)
    IN  \/ \E k \in DOMAIN rest : ~IsHexDigit(rest[k])
        \/ Len(rest) % 2 = 1

\* C21: s_binary fails and pushes nothing when a character that is no
\* hexadecimal digit is left after the separators were taken out, and
\* when an odd number of digits is left.
C21_MalformedRejected ==
    [][ (last'.op = "s_binary" /\ CURRENT # NoRequest /\ Malformed(last'.arg)) =>
          /\ last'.err # NoErr
          /\ heap' = heap ]_vars

\* C22: a CRC16 object reports the checksum of everything it was given,
\* piece after piece: update(a) then update(b) as update(a+b), and CRC16(a)
\* then update(b) as the CRC16 of a+b.
C22_UpdateAccumulates ==
    last.op = "intchecksum" => last.ret = crcbitbybit(sweep[last.arg])

----------------------------------------------------------------------------
(* Properties of the stub aliases (StubSpec) *)

\* C27: every stub alias, called with any argument, raises a ValueError
\* that carries the alias's message and the argument, and changes neither
\* the current request nor the registry.
C27_StubRaisesValueError ==
    [][ last'.op \in StubNames =>
          /\ last'.err = "ValueError"
          /\ \E k \in DOMAIN last'.ret : last'.ret[k] = Stub(last'.op).msg.value
          /\ \E k \in DOMAIN last'.ret : last'.ret[k] = last'.arg
          /\ heap' = heap /\ REQUESTS' = REQUESTS /\ CURRENT' = CURRENT ]_vars

====
